---- MODULE Spec2Model ----
(***************************************************************************)
(* A model of two files of blockstack-core:                                *)
(*   src/blockstack_cli_0.14.1/blockstack_client/user.py                   *)
(*       the mutable-data registry of a profile and the immutable-data     *)
(*       txt records of a user zonefile                                    *)
(*   src/blockstore/lib/operations/namespacereveal.py                      *)
(*       the NAMESPACE_REVEAL codec and its transaction outputs            *)
(*                                                                         *)
(* Python 2 strings are sequences of byte values (0..255).  Python         *)
(* integers are unbounded; the ones the codec handles exceed what TLC's    *)
(* integers hold, so they are kept as sign and hexadecimal magnitude.      *)
(***************************************************************************)
EXTENDS Integers, Sequences, FiniteSets, TLC

VARIABLES
    user_data_info,   \* the profile dict whose 'data' section holds mutable data
    user_zonefile,    \* the user zonefile dict ('txt' records)
    call,             \* the last call made: its arguments, result and pre-state
    USER_CACHE,       \* the module's cache of loaded users, by file name
    user_files        \* the files of the users directory, by path

vars == <<user_data_info, user_zonefile, call, USER_CACHE, user_files>>

-----------------------------------------------------------------------------
(* Bounds of the model *)

\* versions 0..MaxVersion (and the two-digit version 10) are put
MaxVersion == 1

\* LENGTHS['value_hash'], the bytes of a content hash, as the model scales it
\* (20 in the deployed configuration)
LENGTHS_value_hash == 2

\* the most inputs of a transaction
MaxInputs == 2

\* the most txt records of a zonefile that is looked up
MaxTxt == 3

\* the highest index of a user's private key
MaxPrivkeyIndex == 2

\* the most uri records of a zonefile whose urls are added and removed
MaxUri == 3

\* the hexadecimal digits below the point that a float of the model keeps:
\* six of them are the 24 bits of the fixed point, the rest is finer
FLOAT_DIGITS == 7

-----------------------------------------------------------------------------
(* Python strings *)

\* the printable ASCII characters of codes 32..95
ASCII ==
    << " ", "!", "\"", "#", "$", "%", "&", "'", "(", ")", "*", "+", ",", "-", ".", "/",
       "0", "1", "2", "3", "4", "5", "6", "7", "8", "9", ":", ";", "<", "=", ">", "?",
       "@", "A", "B", "C", "D", "E", "F", "G", "H", "I", "J", "K", "L", "M", "N", "O",
       "P", "Q", "R", "S", "T", "U", "V", "W", "X", "Y", "Z", "[", "\\", "]", "^", "_" >>

\* the printable ASCII characters of codes 97..126
ASCII_LOWER ==
    << "a", "b", "c", "d", "e", "f", "g", "h", "i", "j", "k", "l", "m", "n", "o",
       "p", "q", "r", "s", "t", "u", "v", "w", "x", "y", "z", "{", "|", "}", "~" >>

\* ord(c) of a printable ASCII character
Ord(c) ==
    IF \E i \in 1..Len(ASCII) : ASCII[i] = c
    THEN 31 + (CHOOSE i \in 1..Len(ASCII) : ASCII[i] = c)
    ELSE 96 + (CHOOSE i \in 1..Len(ASCII_LOWER) : ASCII_LOWER[i] = c)

RECURSIVE Str(_)
\* the string literal spelled by a tuple of characters, as byte values
Str(t) == IF t = <<>> THEN <<>> ELSE <<Ord(Head(t))>> \o Str(Tail(t))

\* the characters the code names
COLON == Ord(":")
HASH == Ord("#")
MINUS == Ord("-")
EQUALS == Ord("=")
ZERO == Ord("0")

\* Python values where a result may be of several types
None == [type |-> "NoneType"]
PyStr(s) == [type |-> "str", str |-> s]
PyList(l) == [type |-> "list", list |-> l]
PyDict(d) == [type |-> "dict", dict |-> d]
PyBool(b) == [type |-> "bool", bool |-> b]

\* a call that ends by raising the exception exc
Raise(exc) == [type |-> "raise", exc |-> exc]

RECURSIVE find(_, _, _)
\* the first index >= i of the character sep in s, 0 when there is none
find(s, sep, i) ==
    IF i > Len(s) THEN 0 ELSE IF s[i] = sep THEN i ELSE find(s, sep, i + 1)

\* s.startswith(prefix)
startswith(s, prefix) ==
    /\ Len(prefix) <= Len(s)
    /\ SubSeq(s, 1, Len(prefix)) = prefix

\* sep in s, for a one-character sep
contains(s, sep) == find(s, sep, 1) > 0

RECURSIVE split(_, _)
\* s.split(sep), for a one-character sep
split(s, sep) ==
    IF ~contains(s, sep) THEN <<s>>
    ELSE LET i == find(s, sep, 1)
         IN  <<SubSeq(s, 1, i - 1)>> \o split(SubSeq(s, i + 1, Len(s)), sep)

RECURSIVE join(_, _)
\* sep.join(parts)
join(sep, parts) ==
    IF parts = <<>> THEN <<>>
    ELSE IF Len(parts) = 1 THEN parts[1]
    ELSE parts[1] \o <<sep>> \o join(sep, Tail(parts))

RECURSIVE decimal(_)
\* the decimal digits of n >= 0
decimal(n) ==
    IF n < 10 THEN <<ZERO + n>> ELSE decimal(n \div 10) \o <<ZERO + (n % 10)>>

\* '{}'.format(n) of an integer
format_int(n) == IF n < 0 THEN <<MINUS>> \o decimal(-n) ELSE decimal(n)

is_digit(c) == c \in ZERO..(ZERO + 9)

RECURSIVE int_of_decimal(_)
\* int(s) of a string of decimal digits
int_of_decimal(s) ==
    IF Len(s) = 0 THEN 0
    ELSE 10 * int_of_decimal(SubSeq(s, 1, Len(s) - 1)) + (s[Len(s)] - ZERO)

RECURSIVE encode_utf8(_)
\* u.encode('utf-8') of a text of code points below 0x800
encode_utf8(u) ==
    IF u = <<>> THEN <<>>
    ELSE (IF Head(u) < 128 THEN <<Head(u)>>
          ELSE <<192 + (Head(u) \div 64), 128 + (Head(u) % 64)>>)
         \o encode_utf8(Tail(u))

\* the base64 alphabet: A-Z a-z 0-9 + /
b64char(i) ==
    IF i < 26 THEN 65 + i
    ELSE IF i < 52 THEN 97 + (i - 26)
    ELSE IF i < 62 THEN 48 + (i - 52)
    ELSE IF i = 62 THEN 43 ELSE 47

is_b64char(c) == \E i \in 0..63 : b64char(i) = c

b64index(c) == CHOOSE i \in 0..63 : b64char(i) = c

RECURSIVE b64encode(_)
\* base64.b64encode(b): three bytes to four characters, '=' padded
b64encode(b) ==
    IF Len(b) = 0 THEN <<>>
    ELSE IF Len(b) = 1 THEN
        << b64char(b[1] \div 4), b64char((b[1] % 4) * 16), EQUALS, EQUALS >>
    ELSE IF Len(b) = 2 THEN
        << b64char(b[1] \div 4), b64char((b[1] % 4) * 16 + (b[2] \div 16)),
           b64char((b[2] % 16) * 4), EQUALS >>
    ELSE
        << b64char(b[1] \div 4), b64char((b[1] % 4) * 16 + (b[2] \div 16)),
           b64char((b[2] % 16) * 4 + (b[3] \div 64)), b64char(b[3] % 64) >>
        \o b64encode(SubSeq(b, 4, Len(b)))

\* a well-formed base64 text: groups of four, padding only at the end
is_b64(s) ==
    /\ Len(s) % 4 = 0
    /\ \A i \in 1..Len(s) :
          \/ is_b64char(s[i])
          \/ s[i] = EQUALS /\ i >= Len(s) - 1 /\ (i = Len(s) \/ s[Len(s)] = EQUALS)

RECURSIVE b64decode(_)
\* base64.b64decode(s) of a well-formed base64 text
b64decode(s) ==
    IF Len(s) = 0 THEN <<>>
    ELSE LET i1 == b64index(s[1])
             i2 == b64index(s[2])
             b1 == i1 * 4 + (i2 \div 16)
         IN  IF s[3] = EQUALS THEN <<b1>>
             ELSE LET i3 == b64index(s[3])
                      b2 == (i2 % 16) * 16 + (i3 \div 4)
                  IN  IF s[4] = EQUALS THEN <<b1, b2>>
                      ELSE <<b1, b2, (i3 % 4) * 64 + b64index(s[4])>>
                           \o b64decode(SubSeq(s, 5, Len(s)))

-----------------------------------------------------------------------------
(* Python dicts, as functions *)

EmptyDict == <<>>

dict_update(d, e) ==
    [k \in DOMAIN d \cup DOMAIN e |-> IF k \in DOMAIN e THEN e[k] ELSE d[k]]

dict_del(d, k) ==
    IF DOMAIN d \ {k} = {} THEN EmptyDict ELSE [j \in DOMAIN d \ {k} |-> d[j]]

dict_of(k, v) == [j \in {k} |-> v]

\* d.setdefault(k, v): the dict afterwards
setdefault(d, k, v) == IF k \in DOMAIN d THEN d ELSE dict_update(d, dict_of(k, v))

-----------------------------------------------------------------------------
(* user.py: the mutable-data registry *)

\* 'mutable:'
MUTABLE_PREFIX == Str(<<"m", "u", "t", "a", "b", "l", "e">>)

\* 'mutable:{}:{}'.format(base64.b64encode(data_id.encode('utf-8')), version)
pack_mutable_data_md(data_id, version) ==
    MUTABLE_PREFIX \o <<COLON>> \o b64encode(encode_utf8(data_id))
        \o <<COLON>> \o format_int(version)

\* 'mutable:{}:'.format(base64.b64encode(data_id.encode('utf-8')))
pack_mutable_data_md_prefix(data_id) ==
    MUTABLE_PREFIX \o <<COLON>> \o b64encode(encode_utf8(data_id)) \o <<COLON>>

\* the key pattern: mutable:<base64>:<decimal>
OP_MUTABLE_DATA_MD_PATTERN(rec) ==
    LET parts == split(rec, COLON)
    IN  /\ Len(parts) = 3
        /\ parts[1] = MUTABLE_PREFIX
        /\ Len(parts[2]) > 0 /\ is_b64(parts[2])
        /\ Len(parts[3]) > 0 /\ \A i \in 1..Len(parts[3]) : is_digit(parts[3][i])

is_mutable_data_md(rec) == OP_MUTABLE_DATA_MD_PATTERN(rec)

\* (data_id, version) of a key that is_mutable_data_md
unpack_mutable_data_md(rec) ==
    LET parts == split(rec, COLON)
    IN  [data_id |-> b64decode(parts[2]), version |-> int_of_decimal(parts[3])]

\* the uri record of a url hint of a datum
url_to_uri_record(url, datum_name) == [name |-> datum_name, target |-> url]

\* {data_name: {'uri': uris}}
make_mutable_data_links(data_id, version, urls) ==
    LET data_name == pack_mutable_data_md(data_id, version)
        uris == [i \in DOMAIN urls |-> url_to_uri_record(urls[i], data_id)]
    IN  dict_of(data_name, [uri |-> uris])

\* the profile schema: every datum of the data section holds a uri list
PROFILE_MUTABLE_DATA_SCHEMA(d) ==
    \A k \in DOMAIN d["data"] : "uri" \in DOMAIN d["data"][k]

has_mutable_data_section(d) ==
    /\ "data" \in DOMAIN d
    /\ PROFILE_MUTABLE_DATA_SCHEMA(d)

\* the keys of the data section that a scan for data_id stops at; the scan
\* follows the dict's order, which is arbitrary: any of them may come first
matching_mds(d, data_id) ==
    { k \in DOMAIN d["data"] :
        is_mutable_data_md(k) /\ unpack_mutable_data_md(k).data_id = data_id }

\* the possible results (links, version, metadata key) of the lookup
get_mutable_data_info_ex(d, data_id) ==
    IF ~has_mutable_data_section(d) \/ matching_mds(d, data_id) = {}
    THEN { [found |-> FALSE] }
    ELSE { [found |-> TRUE, info |-> d["data"][k],
            version |-> unpack_mutable_data_md(k).version, md |-> k] :
           k \in matching_mds(d, data_id) }

\* the possible results of get_mutable_data_info: the links, or None
get_mutable_data_info(d, data_id) ==
    IF ~has_mutable_data_section(d) THEN {None}
    ELSE LET packed_prefix == pack_mutable_data_md_prefix(data_id)
             hits == { k \in DOMAIN d["data"] :
                         /\ startswith(k, packed_prefix)
                         /\ unpack_mutable_data_md(k).data_id = data_id }
         IN  IF hits = {} THEN {None} ELSE { PyDict(d["data"][k]) : k \in hits }

\* the possible results of get_mutable_data_info_md: the key, or None
get_mutable_data_info_md(d, data_id) ==
    IF ~has_mutable_data_section(d) \/ matching_mds(d, data_id) = {} THEN {None}
    ELSE { PyStr(k) : k \in matching_mds(d, data_id) }

\* the version that is 0 whatever is stored
mutable_data_version_zero(d, data_id) == {0}

\* the possible results of mutable_data_version
mutable_data_version(d, data_id) ==
    { IF key = None THEN 0 ELSE unpack_mutable_data_md(key.str).version :
      key \in get_mutable_data_info_md(d, data_id) }

\* the stale check that never rejects
is_stale_never(existing_version, version) == FALSE

\* the stale check with > for >=: an equal version is put again
is_stale_strict(existing_version, version) == existing_version > version

\* line 825: the existing entry is not older than the one put
is_stale(existing_version, version) == existing_version >= version

\* the replacement without its update: the old key goes, the new links never come
replace_without_insert(data, existing_md, mutable_data_links) ==
    dict_del(data, existing_md)

\* the replacement without its del: the old key stays beside the new one
replace_keeping_old(data, existing_md, mutable_data_links) ==
    dict_update(data, mutable_data_links)

\* lines 831-832: the old key is deleted, the new links are merged in
replace_mutable_data(data, existing_md, mutable_data_links) ==
    dict_update(dict_del(data, existing_md), mutable_data_links)

put_call(data_id, version, mutable_data_links, ret) ==
    [op |-> "put_mutable_data_info", data_id |-> data_id, version |-> version,
     links |-> mutable_data_links, ret |-> ret, pre |-> user_data_info]

\* the put that merges the links before it looks for a stale entry
put_merging_first(data_id, version, mutable_data_links) ==
    LET info == setdefault(user_data_info, "data", EmptyDict)
        merged == [info EXCEPT !["data"] = dict_update(@, mutable_data_links)]
    IN  /\ IF info["data"] = EmptyDict
           THEN /\ user_data_info' = merged
                /\ call' = put_call(data_id, version, mutable_data_links, TRUE)
           ELSE \E existing \in get_mutable_data_info_ex(info, data_id) :
                  IF ~existing.found
                  THEN /\ user_data_info' = merged
                       /\ call' = put_call(data_id, version, mutable_data_links, TRUE)
                  ELSE IF is_stale(existing.version, version)
                  THEN /\ user_data_info' = merged
                       /\ call' = put_call(data_id, version, mutable_data_links, FALSE)
                  ELSE /\ user_data_info' =
                              [info EXCEPT !["data"] =
                                  replace_mutable_data(@, existing.md, mutable_data_links)]
                       /\ call' = put_call(data_id, version, mutable_data_links, TRUE)
        /\ UNCHANGED << user_zonefile, USER_CACHE, user_files >>

put_mutable_data_info(data_id, version, mutable_data_links) ==
    LET info == setdefault(user_data_info, "data", EmptyDict)
    IN  /\ IF info["data"] = EmptyDict
           THEN /\ user_data_info' =
                       [info EXCEPT !["data"] = dict_update(@, mutable_data_links)]
                /\ call' = put_call(data_id, version, mutable_data_links, TRUE)
           ELSE \E existing \in get_mutable_data_info_ex(info, data_id) :
                  IF ~existing.found
                  THEN /\ user_data_info' =
                              [info EXCEPT !["data"] = dict_update(@, mutable_data_links)]
                       /\ call' = put_call(data_id, version, mutable_data_links, TRUE)
                  ELSE IF is_stale(existing.version, version)
                  THEN /\ user_data_info' = info
                       /\ call' = put_call(data_id, version, mutable_data_links, FALSE)
                  ELSE /\ user_data_info' =
                              [info EXCEPT !["data"] =
                                  replace_mutable_data(@, existing.md, mutable_data_links)]
                       /\ call' = put_call(data_id, version, mutable_data_links, TRUE)
        /\ UNCHANGED << user_zonefile, USER_CACHE, user_files >>

remove_call(data_id, ret) ==
    [op |-> "remove_mutable_data_info", data_id |-> data_id, ret |-> ret,
     pre |-> user_data_info]

remove_mutable_data_info(data_id) ==
    /\ IF ~has_mutable_data_section(user_data_info)
          \/ matching_mds(user_data_info, data_id) = {}
       THEN /\ call' = remove_call(data_id, FALSE)
            /\ UNCHANGED << user_data_info, USER_CACHE, user_files >>
       ELSE \E packed_data_txt \in matching_mds(user_data_info, data_id) :
              /\ user_data_info' =
                    [user_data_info EXCEPT !["data"] = dict_del(@, packed_data_txt)]
              /\ call' = remove_call(data_id, TRUE)
    /\ UNCHANGED << user_zonefile, USER_CACHE, user_files >>

\* the data ids put: one padded by base64, one holding a ':'
DataIds == { Str(<<"a">>), Str(<<"a", ":", "b">>) }

Versions == (0..MaxVersion) \cup {10}

\* the url lists a datum is put with
UrlLists ==
    { << Str(<<"u", "1">>) >>, << Str(<<"u", "2">>), Str(<<"u", "3">>) >> }

InitMutable ==
    /\ user_data_info = EmptyDict
    /\ USER_CACHE = EmptyDict
    /\ user_files = EmptyDict
    /\ user_zonefile = EmptyDict
    /\ call = [op |-> "init"]

NextMutable ==
    \/ \E data_id \in DataIds, version \in Versions, urls \in UrlLists :
          put_mutable_data_info(data_id, version,
                                make_mutable_data_links(data_id, version, urls))
    \/ \E data_id \in DataIds : remove_mutable_data_info(data_id)

\* the mutable-data registry under any sequence of puts and removes
SpecMutable == InitMutable /\ [][NextMutable]_vars

-----------------------------------------------------------------------------
(* The mutable-data registry: properties *)

\* the data section of d holds the key of (data_id, version)
HasEntry(d, data_id, version) ==
    /\ "data" \in DOMAIN d
    /\ pack_mutable_data_md(data_id, version) \in DOMAIN d["data"]

IsPut == call.op = "put_mutable_data_info"

-----------------------------------------------------------------------------
(* user.py: the immutable-data txt records of a user zonefile *)

RECURSIVE repeat(_, _)
\* s * n
repeat(s, n) == IF n = 0 THEN <<>> ELSE s \o repeat(s, n - 1)


is_hex_char(c) ==
    \/ c \in ZERO..(ZERO + 9)
    \/ c \in Ord("a")..Ord("f")
    \/ c \in Ord("A")..Ord("F")

\* scripts.is_valid_hash: a string of hex digits of the length of a hash
is_valid_hash(value) ==
    /\ value.type = "str"
    /\ Len(value.str) = LENGTHS_value_hash * 2
    /\ \A i \in 1..Len(value.str) : is_hex_char(value.str[i])

\* the hash of a txt record: what follows its last '#', None when invalid
get_immutable_hash_from_txt(txtrec) ==
    IF ~contains(txtrec, HASH) THEN None
    ELSE LET parts == split(txtrec, HASH)
             h == parts[Len(parts)]
         IN  IF ~is_valid_hash(PyStr(h)) THEN None ELSE PyStr(h)

\* the url hint taken before the first '#' of the record
get_immutable_url_before_first(txtrec) ==
    IF ~contains(txtrec, HASH) THEN None
    ELSE LET url == split(txtrec, HASH)[1]
         IN  IF url = <<>> THEN None ELSE PyStr(url)

\* the url hint of a txt record: what precedes its last '#', None when empty
get_immutable_url_from_txt(txtrec) ==
    IF ~contains(txtrec, HASH) THEN None
    ELSE LET parts == split(txtrec, HASH)
             url == join(HASH, SubSeq(parts, 1, Len(parts) - 1))
         IN  IF url = <<>> THEN None ELSE PyStr(url)

\* the txt list of a zonefile that has one
txt_of(z) == z["txt"]

RECURSIVE matching_hashes(_, _)
\* get_immutable_data_hash's scan: the valid hashes of the records named data_id
matching_hashes(txt, data_id) ==
    IF txt = <<>> THEN <<>>
    ELSE LET txtrec == Head(txt)
             h == get_immutable_hash_from_txt(txtrec.txt)
         IN  (IF txtrec.name = data_id /\ is_valid_hash(h) THEN <<h.str>> ELSE <<>>)
             \o matching_hashes(Tail(txt), data_id)

\* the lookup that stops at the first record of data_id with a valid hash
get_first_immutable_data_hash(z, data_id) ==
    IF "txt" \notin DOMAIN z THEN None
    ELSE LET hs == matching_hashes(txt_of(z), data_id)
         IN  IF hs = <<>> THEN None ELSE PyStr(hs[1])

\* None, the hash, or the list of hashes of the records named data_id
get_immutable_data_hash(z, data_id) ==
    IF "txt" \notin DOMAIN z THEN None
    ELSE LET hs == matching_hashes(txt_of(z), data_id)
         IN  IF hs = <<>> THEN None
             ELSE IF Len(hs) = 1 THEN PyStr(hs[1])
             ELSE PyList(hs)

\* has_immutable_data: some record carries the hash
has_immutable_data(z, data_hash) ==
    /\ "txt" \in DOMAIN z
    /\ \E i \in 1..Len(txt_of(z)) :
          get_immutable_hash_from_txt(txt_of(z)[i].txt) = PyStr(data_hash)

\* list.remove that drops the head of the list whatever x is
list_remove_head(l, x) == Tail(l)

\* list.remove(x): the list without its first element equal to x
list_remove(l, x) ==
    LET i == CHOOSE i \in 1..Len(l) : l[i] = x /\ \A j \in 1..(i - 1) : l[j] # x
    IN  SubSeq(l, 1, i - 1) \o SubSeq(l, i + 1, Len(l))

\* a put of a data_id that has a hash fails whatever the hash
collision_rejected(k, data_hash) == PyBool(FALSE)

\* a put of a data_id that has a hash succeeds when the hash is the same one:
\* True on a collision whatever the hash
collision_accepted(k, data_hash) == PyBool(TRUE)

\* line 456: a put of a data_id that has a hash succeeds when the hash is the same one
collision_result(k, data_hash) == PyBool(k = PyStr(data_hash))

put_immutable_call(data_id, data_hash, data_url, ret) ==
    [op |-> "put_immutable_data_zonefile", data_id |-> data_id,
     data_hash |-> data_hash, data_url |-> data_url, ret |-> ret,
     pre |-> user_zonefile]

put_immutable_data_zonefile(data_id, data_hash, data_url) ==
    /\ IF ~is_valid_hash(PyStr(data_hash))
       THEN /\ call' = put_immutable_call(data_id, data_hash, data_url,
                                               Raise("AssertionError"))
            /\ UNCHANGED << user_zonefile, USER_CACHE, user_files >>
       ELSE LET k == get_immutable_data_hash(user_zonefile, data_id)
                txtrec == (IF data_url = None THEN <<>> ELSE data_url.str)
                              \o <<HASH>> \o data_hash
                name_txt == [name |-> data_id, txt |-> txtrec]
                z == setdefault(user_zonefile, "txt", <<>>)
            IN  IF k # None
                THEN /\ call' = put_immutable_call(data_id, data_hash, data_url,
                                                   collision_result(k, data_hash))
                     /\ UNCHANGED << user_zonefile, USER_CACHE, user_files >>
                ELSE /\ user_zonefile' = [z EXCEPT !["txt"] = Append(@, name_txt)]
                     /\ call' = put_immutable_call(data_id, data_hash, data_url,
                                                   PyBool(TRUE))
    /\ UNCHANGED << user_data_info, USER_CACHE, user_files >>

remove_immutable_call(data_hash, ret) ==
    [op |-> "remove_immutable_data_zonefile", data_hash |-> data_hash, ret |-> ret,
     pre |-> user_zonefile]

remove_immutable_data_zonefile(data_hash) ==
    /\ IF ~is_valid_hash(PyStr(data_hash))
       THEN /\ call' = remove_immutable_call(data_hash, Raise("AssertionError"))
            /\ UNCHANGED << user_zonefile, USER_CACHE, user_files >>
       ELSE IF ~has_immutable_data(user_zonefile, data_hash)
       THEN /\ call' = remove_immutable_call(data_hash, PyBool(FALSE))
            /\ UNCHANGED << user_zonefile, USER_CACHE, user_files >>
       ELSE LET txt == txt_of(user_zonefile)
                i == CHOOSE i \in 1..Len(txt) :
                        /\ get_immutable_hash_from_txt(txt[i].txt) = PyStr(data_hash)
                        /\ \A j \in 1..(i - 1) :
                              get_immutable_hash_from_txt(txt[j].txt) # PyStr(data_hash)
            IN  /\ user_zonefile' =
                      [user_zonefile EXCEPT !["txt"] = list_remove(@, txt[i])]
                /\ call' = remove_immutable_call(data_hash, PyBool(TRUE))
    /\ UNCHANGED << user_data_info, USER_CACHE, user_files >>

\* 'pubkey:data:'
KEY_PREFIX ==
    Str(<<"p", "u", "b", "k", "e", "y", ":", "d", "a", "t", "a", ":">>)

\* 'pubkey'
PUBKEY_NAME == Str(<<"p", "u", "b", "k", "e", "y">>)

user_zonefile_set_data_pubkey(pubkey_hex) ==
    LET z == setdefault(user_zonefile, "txt", <<>>)
        txt == KEY_PREFIX \o pubkey_hex
        present == { i \in 1..Len(z["txt"]) : startswith(z["txt"][i].txt, KEY_PREFIX) }
    IN  /\ IF present # {}
           THEN LET i == CHOOSE i \in present : \A j \in present : i <= j
                IN  user_zonefile' = [z EXCEPT !["txt"][i].txt = txt]
           ELSE user_zonefile' =
                    [z EXCEPT !["txt"] = Append(@, [name |-> PUBKEY_NAME, txt |-> txt])]
        /\ call' = [op |-> "user_zonefile_set_data_pubkey", pubkey_hex |-> pubkey_hex,
                    ret |-> PyBool(TRUE), pre |-> user_zonefile]
        /\ UNCHANGED << user_data_info, USER_CACHE, user_files >>

\* the hashes put and removed: two valid ones, and one too short to be valid
HASH_1 == repeat(Str(<<"1", "a">>), LENGTHS_value_hash)
HASH_2 == repeat(Str(<<"2", "B">>), LENGTHS_value_hash)
HASH_SHORT == repeat(Str(<<"1", "a">>), LENGTHS_value_hash - 1)
ValidHashes == { HASH_1, HASH_2 }
DataHashes == ValidHashes \cup { HASH_SHORT }

\* the data ids put: a name, and the name of the data public key's record
ZoneDataIds == { Str(<<"a">>), PUBKEY_NAME }

\* the url hints: none, or a url with a fragment of its own
DataUrls == { None, PyStr(Str(<<"u", "#", "f">>)) }

\* the data public keys set
PubkeysHex == { Str(<<"0", "2", "a">>), Str(<<"0", "3", "b">>) }

\* a user zonefile has a uri record
URI_RECORD == [name |-> Str(<<"_", "h">>), target |-> Str(<<"u">>)]

InitZonefile ==
    /\ user_zonefile = dict_of("uri", <<URI_RECORD>>)
    /\ user_data_info = EmptyDict
    /\ USER_CACHE = EmptyDict
    /\ user_files = EmptyDict
    /\ call = [op |-> "init"]

NextZonefile ==
    \/ \E data_id \in ZoneDataIds, data_hash \in DataHashes, data_url \in DataUrls :
          put_immutable_data_zonefile(data_id, data_hash, data_url)
    \/ \E data_hash \in DataHashes : remove_immutable_data_zonefile(data_hash)
    \/ \E pubkey_hex \in PubkeysHex : user_zonefile_set_data_pubkey(pubkey_hex)

\* a zonefile under any sequence of puts, removes and data public key updates
SpecZonefile == InitZonefile /\ [][NextZonefile]_vars

-----------------------------------------------------------------------------
(* The immutable-data records: properties *)

IsPutImmutable == call.op = "put_immutable_data_zonefile"

\* z holds a record named data_id that a put of the hash h wrote
RecordedWith(z, data_id, h) ==
    /\ "txt" \in DOMAIN z
    /\ \E i \in 1..Len(z["txt"]), url \in DataUrls :
          /\ z["txt"][i].name = data_id
          /\ z["txt"][i].txt =
                (IF url = None THEN <<>> ELSE url.str) \o <<HASH>> \o h

\* C3: put_immutable_data_zonefile(z, data_id, h2), when data_id is recorded
\* with another valid hash h1, returns False and leaves the txt records as
\* they were: get_immutable_data_hash(z, data_id) still returns h1.
C3_PutOtherHashRejected ==
    IsPutImmutable /\ call.data_hash \in ValidHashes =>
        \A h1 \in ValidHashes \ {call.data_hash} :
            RecordedWith(call.pre, call.data_id, h1) =>
                /\ call.ret = PyBool(FALSE)
                /\ user_zonefile = call.pre
                /\ get_immutable_data_hash(user_zonefile, call.data_id) = PyStr(h1)

\* a put of a second hash for a recorded data_id, rejected
C3_Witness ==
    /\ IsPutImmutable /\ call.data_hash \in ValidHashes
    /\ call.ret = PyBool(FALSE)
    /\ \E h1 \in ValidHashes \ {call.data_hash} :
          RecordedWith(call.pre, call.data_id, h1)

\* C4: after any sequence of put_immutable_data_zonefile,
\* remove_immutable_data_zonefile and user_zonefile_set_data_pubkey calls on a
\* zonefile that starts with no txt records, no two records of the txt list
\* have the same name.
C4_TxtNamesUnique ==
    "txt" \in DOMAIN user_zonefile =>
        \A i, j \in 1..Len(user_zonefile["txt"]) :
            i # j => user_zonefile["txt"][i].name # user_zonefile["txt"][j].name

-----------------------------------------------------------------------------
(* Python integers beyond 32 bits: a sign and a hexadecimal magnitude, most  *)
(* significant digit first, with no leading zero (zero is the empty one)     *)

RECURSIVE strip_zeros(_)
strip_zeros(ds) ==
    IF ds = <<>> THEN <<>>
    ELSE IF Head(ds) = 0 THEN strip_zeros(Tail(ds)) ELSE ds

\* the integer of a sign and hexadecimal digits
Big(neg, ds) ==
    LET mag == strip_zeros(ds) IN [neg |-> neg /\ mag # <<>>, mag |-> mag]

RECURSIVE digits_lt(_, _)
\* a < b, of two digit strings of one length
digits_lt(a, b) ==
    IF a = <<>> THEN FALSE
    ELSE IF Head(a) # Head(b) THEN Head(a) < Head(b)
    ELSE digits_lt(Tail(a), Tail(b))

mag_lt(a, b) ==
    IF Len(a) # Len(b) THEN Len(a) < Len(b) ELSE digits_lt(a, b)

\* a < b
big_lt(a, b) ==
    IF a.neg /\ ~b.neg THEN TRUE
    ELSE IF ~a.neg /\ b.neg THEN FALSE
    ELSE IF a.neg THEN mag_lt(b.mag, a.mag)
    ELSE mag_lt(a.mag, b.mag)

big_gt(a, b) == big_lt(b, a)
big_ge(a, b) == ~big_lt(a, b)
big_le(a, b) == ~big_lt(b, a)

\* -a
big_neg(a) == Big(~a.neg, a.mag)

\* the n-digit string of one digit d
digits_of(d, n) == [i \in 1..n |-> d]

\* 2**bits, for bits a multiple of 4
pow2(bits) == Big(FALSE, <<1>> \o digits_of(0, bits \div 4))

\* 2**bits - 1, for bits a multiple of 4
pow2_minus_1(bits) == Big(FALSE, digits_of(15, bits \div 4))

\* a small integer
RECURSIVE hex_digits(_)
hex_digits(n) == IF n = 0 THEN <<>> ELSE hex_digits(n \div 16) \o <<n % 16>>
big(n) == IF n < 0 THEN Big(TRUE, hex_digits(-n)) ELSE Big(FALSE, hex_digits(n))

\* the digits of mag below 16**n, n of them
low_digits(mag, n) ==
    IF Len(mag) >= n THEN SubSeq(mag, Len(mag) - n + 1, Len(mag))
    ELSE digits_of(0, n - Len(mag)) \o mag

\* the digits of mag from 16**n up
high_digits(mag, n) ==
    IF Len(mag) > n THEN SubSeq(mag, 1, Len(mag) - n) ELSE <<>>

\* the character of a hexadecimal digit, as '%x' and hexlify write it
hex_char(d) == IF d < 10 THEN ZERO + d ELSE Ord("a") + (d - 10)

\* the digit of a hexadecimal character
hex_value(c) ==
    IF c \in ZERO..(ZERO + 9) THEN c - ZERO
    ELSE IF c \in Ord("a")..Ord("f") THEN c - Ord("a") + 10
    ELSE c - Ord("A") + 10

is_hex(s) == \A i \in 1..Len(s) : is_hex_char(s[i])

\* binascii.hexlify: two hexadecimal characters a byte
hexlify(b) ==
    [i \in 1..(2 * Len(b)) |->
        IF i % 2 = 1 THEN hex_char(b[(i + 1) \div 2] \div 16)
        ELSE hex_char(b[i \div 2] % 16)]

\* binascii.unhexlify of an even number of hexadecimal characters
unhexlify(s) ==
    [i \in 1..(Len(s) \div 2) |-> hex_value(s[2 * i - 1]) * 16 + hex_value(s[2 * i])]

\* int(s, 16): ValueError on the empty string
int_16(s) ==
    IF s = <<>> \/ ~is_hex(s) THEN Raise("ValueError")
    ELSE [type |-> "int", int |-> Big(FALSE, [i \in 1..Len(s) |-> hex_value(s[i])])]

\* '%0.<n>x' % v: at least n digits, a '-' before them when v < 0
format_x(v, n) ==
    LET ds == IF Len(v.mag) >= n THEN v.mag ELSE low_digits(v.mag, n)
    IN  (IF v.neg THEN <<MINUS>> ELSE <<>>) \o [i \in 1..Len(ds) |-> hex_char(ds[i])]

RECURSIVE join_all(_)
\* ''.join(parts)
join_all(parts) ==
    IF parts = <<>> THEN <<>> ELSE Head(parts) \o join_all(Tail(parts))

-----------------------------------------------------------------------------
(* Python floats of the decay rate: counts of 16**-FLOAT_DIGITS, a sign and  *)
(* a hexadecimal magnitude                                                   *)

\* the floats that are no number of the line: inf, -inf and nan
FLOAT_INF == [neg |-> FALSE, mag |-> <<>>, special |-> "inf"]
FLOAT_MINUS_INF == [neg |-> TRUE, mag |-> <<>>, special |-> "inf"]
FLOAT_NAN == [neg |-> FALSE, mag |-> <<>>, special |-> "nan"]
is_special(x) == "special" \in DOMAIN x

\* int(x) of x >= 0
float_int(x) == Big(FALSE, high_digits(x.mag, FLOAT_DIGITS))

\* int((x - int(x)) * float(1 << 24)) of x >= 0, as six hexadecimal digits
float_frac_24(x) == SubSeq(low_digits(x.mag, FLOAT_DIGITS), 1, 6)

\* ipart + float(fpart) / (1 << 28): the fraction a digit too low
float_of_low(ipart, fpart) ==
    Big(FALSE, ipart.mag \o digits_of(0, FLOAT_DIGITS - 6) \o fpart)

\* ipart + float(fpart) / (1 << 24), of six hexadecimal digits fpart
float_of(ipart, fpart) ==
    Big(FALSE, ipart.mag \o fpart \o digits_of(0, FLOAT_DIGITS - 6))

-----------------------------------------------------------------------------
(* namespacereveal.py *)

namespace_decay_to_float(namespace_decay_fixedpoint) ==
    LET ipart == Big(FALSE, high_digits(namespace_decay_fixedpoint.mag, 6))
        fpart == low_digits(namespace_decay_fixedpoint.mag, 6)
    IN  float_of(ipart, fpart)

\* int(x) raises on nan (ValueError) and on inf (OverflowError)
int_of_special(x) ==
    IF x.special = "nan" THEN Raise("ValueError") ELSE Raise("OverflowError")

\* the conversion without the check of lines 64-65: an integer part above 255
\* goes into the fixed point
namespace_decay_to_fixpoint_unchecked(namespace_decay_float) ==
    IF namespace_decay_float.neg THEN None
    ELSE IF is_special(namespace_decay_float)
    THEN int_of_special(namespace_decay_float)
    ELSE [type |-> "int",
          int |-> Big(FALSE, float_int(namespace_decay_float).mag
                                 \o float_frac_24(namespace_decay_float))]

\* None, or the integer (ipart << 24) | int(fpart * 2**24)
namespace_decay_to_fixpoint(namespace_decay_float) ==
    IF namespace_decay_float.neg THEN None
    ELSE IF is_special(namespace_decay_float)
    THEN int_of_special(namespace_decay_float)
    ELSE LET ipart == float_int(namespace_decay_float)
         IN  IF big_gt(ipart, big(255)) THEN None
             ELSE [type |-> "int",
                   int |-> Big(FALSE, ipart.mag \o float_frac_24(namespace_decay_float))]

\* the serializer that pads nothing: '%x'
serialize_int_unpadded(int_field, numbytes) ==
    IF big_ge(int_field, pow2(numbytes * 8))
       \/ big_lt(int_field, big_neg(pow2(numbytes * 8)))
    THEN Raise("Exception")
    ELSE LET hex_str == format_x(int_field, 1)
         IN  PyStr(IF Len(hex_str) % 2 # 0 THEN <<ZERO>> \o hex_str ELSE hex_str)

serialize_int(int_field, numbytes) ==
    IF big_ge(int_field, pow2(numbytes * 8))
       \/ big_lt(int_field, big_neg(pow2(numbytes * 8)))
    THEN Raise("Exception")
    ELSE LET hex_str == format_x(int_field, numbytes * 2)
         IN  PyStr(IF Len(hex_str) % 2 # 0 THEN <<ZERO>> \o hex_str ELSE hex_str)

\* the widths of the fields, in bytes, and the longest namespace ID
LENGTHS_blockchain_id_namespace_life == 4
LENGTHS_blockchain_id_namespace_cost == 7
LENGTHS_blockchain_id_namespace_price_decay == 4
LENGTHS_blockchain_id_namespace_version == 2
LENGTHS_blockchain_id_namespace_id == 19

\* 0 for infinite
NAMESPACE_LIFE_ZERO == big(0)

\* 0xffffffff for infinite
NAMESPACE_LIFE_INFINITE == pow2_minus_1(32)

\* b40.is_b40: characters of 0-9 a-z - _ . + only
is_b40(s) ==
    \A i \in 1..Len(s) :
        \/ s[i] \in ZERO..(ZERO + 9)
        \/ s[i] \in Ord("a")..Ord("z")
        \/ s[i] \in { MINUS, Ord("_"), Ord("."), Ord("+") }

\* the magic bytes and the opcode of the framing
MAGIC_BYTES == Str(<<"i", "d">>)
NAMESPACE_REVEAL == Ord("&")

\* scripts.blockstore_script_to_hex of 'NAMESPACE_REVEAL 0x.. 0x.. ..': the
\* opcode as two digits, then each literal without its 0x
blockstore_script_to_hex(literals) ==
    LET hex_script == hexlify(<<NAMESPACE_REVEAL>>) \o join_all(literals)
    IN  IF Len(hex_script) % 2 # 0 THEN Raise("Exception") ELSE PyStr(hex_script)

\* scripts.add_magic_bytes
add_magic_bytes(hex_script) == hexlify(MAGIC_BYTES) \o hex_script

build(namespace_id, version, reveal_addr, lifetime, satoshi_cost, price_decay_rate) ==
    IF ~is_b40(namespace_id) \/ contains(namespace_id, Ord("+"))
       \/ contains(namespace_id, Ord("."))
    THEN Raise("Exception")
    ELSE IF Len(namespace_id) > LENGTHS_blockchain_id_namespace_id
    THEN Raise("Exception")
    ELSE
    LET price_decay_rate_fixedpoint == namespace_decay_to_fixpoint(price_decay_rate)
        life == IF big_lt(lifetime, big(0)) \/ big_gt(lifetime, pow2_minus_1(32))
                THEN NAMESPACE_LIFE_INFINITE ELSE lifetime
    IN  IF price_decay_rate_fixedpoint.type = "raise" THEN price_decay_rate_fixedpoint
        ELSE IF price_decay_rate_fixedpoint = None THEN Raise("Exception")
        ELSE IF big_lt(satoshi_cost, big(0)) \/ big_gt(satoshi_cost, pow2_minus_1(64))
        THEN Raise("Exception")
        ELSE IF big_lt(price_decay_rate_fixedpoint.int, big(0))
                \/ big_gt(price_decay_rate_fixedpoint.int, pow2_minus_1(32))
        THEN Raise("Exception")
        ELSE
        LET life_hex == serialize_int(life, 4)
            satoshi_cost_hex == serialize_int(satoshi_cost, 7)
            price_decay_hex == serialize_int(price_decay_rate_fixedpoint.int, 4)
            version_hex == serialize_int(version, 2)
        IN  IF life_hex.type = "raise" THEN life_hex
            ELSE IF satoshi_cost_hex.type = "raise" THEN satoshi_cost_hex
            ELSE IF price_decay_hex.type = "raise" THEN price_decay_hex
            ELSE IF version_hex.type = "raise" THEN version_hex
            ELSE
            LET hex_script == blockstore_script_to_hex(
                    << life_hex.str, satoshi_cost_hex.str, price_decay_hex.str,
                       version_hex.str, hexlify(namespace_id) >>)
            IN  IF hex_script.type = "raise" THEN hex_script
                ELSE PyStr(add_magic_bytes(hex_script.str))

\* s[off:off+n]
slice(s, off, n) ==
    IF off >= Len(s) THEN <<>>
    ELSE SubSeq(s, off + 1, IF off + n > Len(s) THEN Len(s) ELSE off + n)

\* hashing.hash_name: a hash of its three arguments
hash_name(name, script_pubkey, register_addr) ==
    << "hash_name", name, script_pubkey, register_addr >>

parse(bin_payload, sender, recipient_address) ==
    LET off1 == LENGTHS_blockchain_id_namespace_life
        off2 == off1 + LENGTHS_blockchain_id_namespace_cost
        off3 == off2 + LENGTHS_blockchain_id_namespace_price_decay
        off4 == off3 + LENGTHS_blockchain_id_namespace_version
        life == int_16(hexlify(slice(bin_payload, 0,
                                     LENGTHS_blockchain_id_namespace_life)))
        cost == int_16(hexlify(slice(bin_payload, off1,
                                     LENGTHS_blockchain_id_namespace_cost)))
        decay_fixedpoint ==
            int_16(hexlify(slice(bin_payload, off2,
                                 LENGTHS_blockchain_id_namespace_price_decay)))
        version == int_16(hexlify(slice(bin_payload, off3,
                                        LENGTHS_blockchain_id_namespace_version)))
        namespace_id == slice(bin_payload, off4, Len(bin_payload))
    IN  IF life.type = "raise" THEN life
        ELSE IF cost.type = "raise" THEN cost
        ELSE IF decay_fixedpoint.type = "raise" THEN decay_fixedpoint
        ELSE IF version.type = "raise" THEN version
        ELSE PyDict([ opcode |-> "NAMESPACE_REVEAL",
                      lifetime |-> life.int,
                      cost |-> cost.int,
                      price_decay |-> namespace_decay_to_float(decay_fixedpoint.int),
                      namespace_id |-> namespace_id,
                      namespace_id_hash |->
                          hash_name(namespace_id, sender, recipient_address),
                      version |-> version.int ])

\* the fees of the configuration, in satoshis
DEFAULT_OP_RETURN_FEE == 10000
DEFAULT_DUST_FEE == 5500

RECURSIVE sum_values(_)
\* sum([input['value'] for input in inputs])
sum_values(inputs) ==
    IF inputs = <<>> THEN 0 ELSE Head(inputs).value + sum_values(Tail(inputs))

\* pybitcoin's calculate_change_amount: what is left of the inputs after the
\* amount sent and the fee, ValueError when that is negative
calculate_change_amount(inputs, send_amount, fee) ==
    LET change_amount == sum_values(inputs) - send_amount - fee
    IN  IF change_amount < 0 THEN Raise("ValueError")
        ELSE [type |-> "int", int |-> change_amount]

\* pybitcoin's scripts of an output
make_op_return_script(data) == << "OP_RETURN", data >>
make_pay_to_address_script(address) == << "OP_DUP OP_HASH160", address >>

\* the outputs that bill the dust fee once whatever the inputs
make_outputs_flat_dust(data, inputs, reveal_addr, change_addr) ==
    LET total_to_send == DEFAULT_OP_RETURN_FEE * 2 + DEFAULT_DUST_FEE
        change == calculate_change_amount(inputs, total_to_send, DEFAULT_OP_RETURN_FEE)
    IN  IF change.type = "raise" THEN change
        ELSE PyList(<< [script_hex |-> make_op_return_script(data),
                        value |-> DEFAULT_OP_RETURN_FEE],
                       [script_hex |-> make_pay_to_address_script(reveal_addr),
                        value |-> DEFAULT_DUST_FEE],
                       [script_hex |-> make_pay_to_address_script(change_addr),
                        value |-> change.int] >>)

make_outputs(data, inputs, reveal_addr, change_addr) ==
    LET total_to_send == DEFAULT_OP_RETURN_FEE * 2 + DEFAULT_DUST_FEE
                            + Len(inputs) * DEFAULT_DUST_FEE
        change == calculate_change_amount(inputs, total_to_send, DEFAULT_OP_RETURN_FEE)
    IN  IF change.type = "raise" THEN change
        ELSE PyList(<< [script_hex |-> make_op_return_script(data),
                        value |-> DEFAULT_OP_RETURN_FEE],
                       [script_hex |-> make_pay_to_address_script(reveal_addr),
                        value |-> DEFAULT_DUST_FEE],
                       [script_hex |-> make_pay_to_address_script(change_addr),
                        value |-> change.int] >>)

-----------------------------------------------------------------------------
(* The NAMESPACE_REVEAL operation: arguments and calls *)

\* a float of integer digits and at most FLOAT_DIGITS digits below the point
float_lit(neg, ipart, fpart) ==
    Big(neg, ipart \o fpart \o digits_of(0, FLOAT_DIGITS - Len(fpart)))

NamespaceIds ==
    { <<>>, Str(<<"i", "d">>), Str(<<"a", ".", "b">>), Str(<<"a", "+", "b">>),
      Str(<<"A">>), digits_of(Ord("x"), LENGTHS_blockchain_id_namespace_id + 1) }

BuildVersions == { big(0), big(1), pow2_minus_1(16), pow2(16), big(-1) }

Lifetimes == { big(0), pow2_minus_1(32), pow2(32), big(-1) }

Costs == { big(0), pow2_minus_1(56), pow2(56), pow2_minus_1(64), pow2(64), big(-1) }

\* 0.0, 1.5, 255 + (2**24 - 1) / 2**24, 256.0, -0.5 and 1 + 2**-28
DecayRates ==
    { float_lit(FALSE, <<>>, <<>>),
      float_lit(FALSE, <<1>>, <<8>>),
      float_lit(FALSE, <<15, 15>>, digits_of(15, 6)),
      float_lit(FALSE, <<1, 0, 0>>, <<>>),
      float_lit(TRUE, <<>>, <<8>>),
      float_lit(FALSE, <<1>>, digits_of(0, 6) \o <<1>>) }

Addresses == { Str(<<"s">>), Str(<<"r">>) }

BuildArgs ==
    [ op : {"args"}, fn : {"build"}, namespace_id : NamespaceIds,
      version : BuildVersions, reveal_addr : { Str(<<"r">>) },
      lifetime : Lifetimes, satoshi_cost : Costs, price_decay_rate : DecayRates ]

SerializeValues ==
    { big(0), big(1), pow2_minus_1(16), pow2(16), pow2_minus_1(32), pow2(32),
      pow2_minus_1(56), pow2(56), big(-1), big_neg(pow2(16)),
      big_neg(Big(FALSE, <<1, 0, 0, 0, 1>>)) }

SerializeArgs ==
    [ op : {"args"}, fn : {"serialize_int"}, int_field : SerializeValues,
      numbytes : { LENGTHS_blockchain_id_namespace_life,
                   LENGTHS_blockchain_id_namespace_cost,
                   LENGTHS_blockchain_id_namespace_version } ]

\* lifetime 1, cost 2, decay 1.5, version 3, namespace ID 'id'; and all ones
SamplePayloads ==
    { << 0, 0, 0, 1,  0, 0, 0, 0, 0, 0, 2,  1, 128, 0, 0,  0, 3 >>
          \o Str(<<"i", "d">>),
      digits_of(255, 19) }

ParseArgs ==
    { [ op |-> "args", fn |-> "parse", bin_payload |-> SubSeq(p, 1, n),
        sender |-> Str(<<"s">>), recipient_address |-> Str(<<"r">>) ] :
      p \in SamplePayloads, n \in 0..19 }

InputValues == { 0, 5500, 31000, 41000 }

InputLists ==
    UNION { [ 1..n -> [ value : InputValues ] ] : n \in 0..MaxInputs }

OutputArgs ==
    [ op : {"args"}, fn : {"make_outputs"}, data : { Str(<<"d">>) },
      inputs : InputLists, reveal_addr : Addresses, change_addr : Addresses ]

\* the rates converted alone: those of build, the rates that rounding would
\* carry up (1 + 15 * 2**-28 and the float next below 256), 2**-28, and the
\* floats that are no number
DecayFloats ==
    DecayRates \cup
    { float_lit(FALSE, <<1>>, digits_of(0, 6) \o <<15>>),
      float_lit(FALSE, <<15, 15>>, digits_of(15, FLOAT_DIGITS)),
      float_lit(FALSE, <<>>, digits_of(0, 6) \o <<1>>),
      float_lit(FALSE, <<2>>, <<4, 0, 0, 0, 0, 1, 8>>),
      float_lit(TRUE, <<1, 0, 0>>, <<>>),
      FLOAT_INF, FLOAT_MINUS_INF, FLOAT_NAN }

DecayArgs ==
    [ op : {"args"}, fn : {"namespace_decay_to_fixpoint"},
      namespace_decay_float : DecayFloats ]

InitReveal ==
    /\ user_data_info = EmptyDict
    /\ USER_CACHE = EmptyDict
    /\ user_files = EmptyDict
    /\ user_zonefile = EmptyDict
    /\ call \in BuildArgs \cup SerializeArgs \cup ParseArgs \cup OutputArgs
                  \cup DecayArgs

Pending(fn) == call.op = "args" /\ call.fn = fn

serialize_int_step ==
    /\ Pending("serialize_int")
    /\ call' = [ op |-> "serialize_int", args |-> call,
                 ret |-> serialize_int(call.int_field, call.numbytes) ]
    /\ UNCHANGED << user_data_info, user_zonefile, USER_CACHE, user_files >>

build_step ==
    /\ Pending("build")
    /\ call' = [ op |-> "build", args |-> call,
                 ret |-> build(call.namespace_id, call.version, call.reveal_addr,
                               call.lifetime, call.satoshi_cost,
                               call.price_decay_rate) ]
    /\ UNCHANGED << user_data_info, user_zonefile, USER_CACHE, user_files >>

\* parse of what build returned, the three bytes of the framing dropped
parse_built_step(sender, recipient_address) ==
    /\ call.op = "build"
    /\ call.ret.type = "str"
    /\ is_hex(call.ret.str)
    /\ LET nulldata == unhexlify(call.ret.str)
           bin_payload == slice(nulldata, 3, Len(nulldata))
       IN  call' = [ op |-> "parse", built |-> TRUE, args |-> call.args,
                     bin_payload |-> bin_payload, sender |-> sender,
                     recipient_address |-> recipient_address,
                     ret |-> parse(bin_payload, sender, recipient_address) ]
    /\ UNCHANGED << user_data_info, user_zonefile, USER_CACHE, user_files >>

parse_step ==
    /\ Pending("parse")
    /\ call' = [ op |-> "parse", built |-> FALSE, args |-> call,
                 bin_payload |-> call.bin_payload, sender |-> call.sender,
                 recipient_address |-> call.recipient_address,
                 ret |-> parse(call.bin_payload, call.sender,
                               call.recipient_address) ]
    /\ UNCHANGED << user_data_info, user_zonefile, USER_CACHE, user_files >>

make_outputs_step ==
    /\ Pending("make_outputs")
    /\ call' = [ op |-> "make_outputs", args |-> call,
                 ret |-> make_outputs(call.data, call.inputs, call.reveal_addr,
                                      call.change_addr) ]
    /\ UNCHANGED << user_data_info, user_zonefile, USER_CACHE, user_files >>

namespace_decay_to_fixpoint_step ==
    /\ Pending("namespace_decay_to_fixpoint")
    /\ call' = [ op |-> "namespace_decay_to_fixpoint", args |-> call,
                 ret |-> namespace_decay_to_fixpoint(call.namespace_decay_float) ]
    /\ UNCHANGED << user_data_info, user_zonefile, USER_CACHE, user_files >>

\* the fixed point that namespace_decay_to_fixpoint returned, converted back
namespace_decay_to_float_step ==
    /\ call.op = "namespace_decay_to_fixpoint"
    /\ call.ret.type = "int"
    /\ call' = [ op |-> "namespace_decay_to_float", args |-> call.args,
                 namespace_decay_fixedpoint |-> call.ret.int,
                 ret |-> namespace_decay_to_float(call.ret.int) ]
    /\ UNCHANGED << user_data_info, user_zonefile, USER_CACHE, user_files >>

NextReveal ==
    \/ namespace_decay_to_fixpoint_step
    \/ namespace_decay_to_float_step
    \/ serialize_int_step
    \/ build_step
    \/ \E sender \in Addresses, recipient_address \in Addresses :
          parse_built_step(sender, recipient_address)
    \/ parse_step
    \/ make_outputs_step

SpecReveal == InitReveal /\ [][NextReveal]_vars

-----------------------------------------------------------------------------
(* The NAMESPACE_REVEAL operation: properties *)

\* 0 <= v <= 2**bits - 1
InRange(v, bits) == big_ge(v, big(0)) /\ big_le(v, pow2_minus_1(bits))

\* a rate of [0, 256) with nothing below 2**-24
ExactlyRepresentable(x) ==
    /\ ~x.neg
    /\ big_le(float_int(x), big(255))
    /\ low_digits(x.mag, FLOAT_DIGITS - 6) = digits_of(0, FLOAT_DIGITS - 6)

IsParseOfBuilt == call.op = "parse" /\ call.built

\* C5: for a namespace_id build accepts, a version of [0, 2^16-1], a lifetime
\* of [0, 2^32-1], a satoshi_cost of [0, 2^56-1] and a decay rate exactly
\* representable in 8.24 fixed point, parse of build's payload without its
\* three bytes of framing returns the same lifetime, cost, price_decay,
\* version and namespace_id, and the namespace_id_hash
\* hash_name(namespace_id, sender, recipient_address)
C5_ParseInvertsBuild ==
    ( /\ IsParseOfBuilt
      /\ InRange(call.args.version, 16)
      /\ InRange(call.args.lifetime, 32)
      /\ InRange(call.args.satoshi_cost, 56)
      /\ ExactlyRepresentable(call.args.price_decay_rate) )
    => /\ call.ret.type = "dict"
       /\ call.ret.dict.lifetime = call.args.lifetime
       /\ call.ret.dict.cost = call.args.satoshi_cost
       /\ call.ret.dict.price_decay = call.args.price_decay_rate
       /\ call.ret.dict.version = call.args.version
       /\ call.ret.dict.namespace_id = call.args.namespace_id
       /\ call.ret.dict.namespace_id_hash =
              hash_name(call.args.namespace_id, call.sender, call.recipient_address)

\* the largest version and cost, the rate 1.5 and the namespace 'id' came back
C5_Witness ==
    /\ IsParseOfBuilt
    /\ call.args.version = pow2_minus_1(16)
    /\ call.args.lifetime = big(0)
    /\ call.args.satoshi_cost = pow2_minus_1(56)
    /\ call.args.price_decay_rate = float_lit(FALSE, <<1>>, <<8>>)
    /\ call.args.namespace_id = Str(<<"i", "d">>)
    /\ call.sender # call.recipient_address
    /\ call.ret.type = "dict"
    /\ call.ret.dict.version = pow2_minus_1(16)

\* the 2 * numbytes hexadecimal characters of v, for 0 <= v < 2**(8 * numbytes)
field_hex(v, numbytes) ==
    LET ds == low_digits(v.mag, 2 * numbytes)
    IN  [i \in 1..Len(ds) |-> hex_char(ds[i])]

\* the lifetime build encodes
normalized_lifetime(lifetime) ==
    IF InRange(lifetime, 32) THEN lifetime ELSE NAMESPACE_LIFE_INFINITE

\* the payload holds the arguments a in fields of 4, 7, 4 and 2 bytes
WellEncoded(nulldata, a) ==
    LET fixedpoint == namespace_decay_to_fixpoint(a.price_decay_rate)
    IN  /\ fixedpoint # None
        /\ InRange(a.satoshi_cost, 8 * LENGTHS_blockchain_id_namespace_cost)
        /\ InRange(a.version, 8 * LENGTHS_blockchain_id_namespace_version)
        /\ nulldata =
              hexlify(MAGIC_BYTES \o <<NAMESPACE_REVEAL>>)
              \o field_hex(normalized_lifetime(a.lifetime),
                           LENGTHS_blockchain_id_namespace_life)
              \o field_hex(a.satoshi_cost, LENGTHS_blockchain_id_namespace_cost)
              \o field_hex(fixedpoint.int, LENGTHS_blockchain_id_namespace_price_decay)
              \o field_hex(a.version, LENGTHS_blockchain_id_namespace_version)
              \o hexlify(a.namespace_id)

\* C6: build never silently mis-encodes an integer field: it raises, or
\* returns a payload whose lifetime, satoshi_cost, decay and version fields
\* are exactly 4, 7, 4 and 2 bytes holding the (normalized) argument values;
\* it raises for every satoshi_cost outside [0, 2^56-1] and for every version
\* outside [0, 2^16-1]
C6_BuildRaisesOrEncodes ==
    call.op = "build" =>
        /\ call.ret.type = "raise" \/ WellEncoded(call.ret.str, call.args)
        /\ ( ~InRange(call.args.satoshi_cost, 56) \/ ~InRange(call.args.version, 16) )
               => call.ret.type = "raise"

\* C7: serialize_int(value, numbytes) raises for every value
\* >= 2^(numbytes*8) and for every negative value, and succeeds for every
\* value of [0, 2^(numbytes*8) - 1]
C7_SerializeIntRaisesOutsideRange ==
    call.op = "serialize_int" =>
        IF InRange(call.args.int_field, 8 * call.args.numbytes)
        THEN call.ret.type = "str"
        ELSE call.ret.type = "raise"

\* the bytes before the namespace ID
FIXED_HEADER ==
    LENGTHS_blockchain_id_namespace_life + LENGTHS_blockchain_id_namespace_cost
    + LENGTHS_blockchain_id_namespace_price_decay
    + LENGTHS_blockchain_id_namespace_version

\* C9: parse of a payload shorter than the 17 bytes of the fixed header (every
\* length 0..16) fails; it never returns a record for such a payload
C9_ShortPayloadFails ==
    ( call.op = "parse" /\ Len(call.bin_payload) < FIXED_HEADER )
        => call.ret.type = "raise"

\* the three outputs, in order, with the change given
outputs_with(a, change) ==
    PyList(<< [script_hex |-> make_op_return_script(a.data),
               value |-> DEFAULT_OP_RETURN_FEE],
              [script_hex |-> make_pay_to_address_script(a.reveal_addr),
               value |-> DEFAULT_DUST_FEE],
              [script_hex |-> make_pay_to_address_script(a.change_addr),
               value |-> change] >>)

-----------------------------------------------------------------------------
(* The mutable-data registry: further properties *)

\* the put succeeded over an entry of data_id of a lower version
IsVersionBump ==
    /\ IsPut /\ call.ret
    /\ \E v \in Versions : v < call.version /\ HasEntry(call.pre, call.data_id, v)

-----------------------------------------------------------------------------
(* The immutable-data records: further properties *)

\* the step is a put of the data_id and hash that the last call put with success
RepeatsPut ==
    /\ IsPutImmutable /\ call.ret = PyBool(TRUE)
    /\ call'.op = "put_immutable_data_zonefile"
    /\ call'.data_id = call.data_id
    /\ call'.data_hash = call.data_hash
    /\ call'.pre = user_zonefile

\* C12: put_immutable_data_zonefile is idempotent for an equal hash:
\* repeating a successful put(z, data_id, h) returns True and adds no second
\* txt record, so the zonefile after the second call equals the zonefile
\* after the first.
C12_PutSameHashIdempotent ==
    [][ RepeatsPut => /\ call'.ret = PyBool(TRUE)
                      /\ user_zonefile' = user_zonefile ]_vars

\* the second of two equal puts returned True with the first one's record there
C12_Witness ==
    /\ IsPutImmutable /\ call.ret = PyBool(TRUE)
    /\ call.pre = user_zonefile
    /\ RecordedWith(call.pre, call.data_id, call.data_hash)
    /\ Len(user_zonefile["txt"]) = 1

-----------------------------------------------------------------------------
(* The NAMESPACE_REVEAL operation: further properties *)

\* C13: build rejects with an error every namespace_id whose length is
\* outside [1, LENGTHS['blockchain_id_namespace_id']], the empty string
\* included.
C13_BuildRejectsBadLength ==
    ( /\ call.op = "build"
      /\ \/ Len(call.args.namespace_id) < 1
         \/ Len(call.args.namespace_id) > LENGTHS_blockchain_id_namespace_id )
    => call.ret.type = "raise"

\* the arguments but the lifetime are ones build encodes
OtherArgsValid(a) ==
    /\ a.namespace_id = Str(<<"i", "d">>)
    /\ InRange(a.version, 16)
    /\ InRange(a.satoshi_cost, 56)
    /\ ExactlyRepresentable(a.price_decay_rate)

\* the lifetime field of what build returned: the 4 bytes after the framing
lifetime_field(nulldata) ==
    SubSeq(nulldata, 7, 6 + 2 * LENGTHS_blockchain_id_namespace_life)

\* C14: build encodes the lifetime field as 0xFFFFFFFF (the infinite sentinel)
\* for every lifetime < 0 or > 2^32-1 without raising, and encodes every
\* lifetime of [0, 2^32-1] unchanged.
C14_LifetimeCoerced ==
    call.op = "build" =>
        /\ OtherArgsValid(call.args) => call.ret.type = "str"
        /\ call.ret.type = "str" =>
              lifetime_field(call.ret.str) =
                  IF InRange(call.args.lifetime, 32)
                  THEN field_hex(call.args.lifetime, 4)
                  ELSE Str(<<"f", "f", "f", "f", "f", "f", "f", "f">>)

\* a lifetime of -1 and one of 2**32 were encoded as ffffffff
C14_Witness ==
    /\ call.op = "build"
    /\ call.args.lifetime \in { big(-1), pow2(32) }
    /\ OtherArgsValid(call.args)
    /\ call.ret.type = "str"
    /\ lifetime_field(call.ret.str) = Str(<<"f", "f", "f", "f", "f", "f", "f", "f">>)

\* the digit of 16**(k-1) of a magnitude, 0 beyond its length
digit_at(mag, k) == IF k <= Len(mag) THEN mag[Len(mag) - k + 1] ELSE 0

RECURSIVE carry_out(_, _, _)
\* the carry out of the k lowest digits of a + b
carry_out(a, b, k) ==
    IF k = 0 THEN 0
    ELSE (digit_at(a, k) + digit_at(b, k) + carry_out(a, b, k - 1)) \div 16

\* a + b, of two magnitudes
mag_add(a, b) ==
    LET n == (IF Len(a) > Len(b) THEN Len(a) ELSE Len(b)) + 1
    IN  strip_zeros([i \in 1..n |->
            (digit_at(a, n - i + 1) + digit_at(b, n - i + 1)
                + carry_out(a, b, n - i)) % 16])

\* 2**-24, as a float
FLOAT_ULP_24 == float_lit(FALSE, <<>>, <<0, 0, 0, 0, 0, 1>>)

\* x < 0, of a float
float_negative(x) == x.neg

\* floor(x) > 255, of a float x >= 0
float_floor_above_255(x) ==
    IF is_special(x) THEN x.special = "inf" ELSE big_gt(float_int(x), big(255))

\* trunc(x * 2**24), of a finite float x >= 0
float_times_2_24_truncated(x) == Big(FALSE, high_digits(x.mag, FLOAT_DIGITS - 6))

\* C15: namespace_decay_to_fixpoint(x) returns None exactly when x < 0 or
\* floor(x) > 255; otherwise it returns (floor(x) << 24) | trunc(frac(x) *
\* 2^24), truncating (not rounding) the fractional part. (Stated for every
\* float x but nan.)
C15_FixpointNoneOrTruncated ==
    ( /\ call.op = "namespace_decay_to_fixpoint"
      /\ call.args.namespace_decay_float # FLOAT_NAN )
    => LET x == call.args.namespace_decay_float
       IN  IF float_negative(x) \/ float_floor_above_255(x)
           THEN call.ret = None
           ELSE call.ret = [type |-> "int", int |-> float_times_2_24_truncated(x)]

\* 0 <= x < 256, of a float
InDecayRange(x) ==
    ~is_special(x) /\ ~x.neg /\ big_le(float_int(x), big(255))

\* C16: for every x of [0, 256), namespace_decay_to_float(
\* namespace_decay_to_fixpoint(x)) differs from x by less than 1/2^24 (and
\* never exceeds x).
C16_FixpointRoundTripWithinUlp ==
    /\ ( call.op = "namespace_decay_to_fixpoint"
         /\ InDecayRange(call.args.namespace_decay_float) )
       => call.ret.type = "int"
    /\ call.op = "namespace_decay_to_float" =>
          LET x == call.args.namespace_decay_float
          IN  /\ InDecayRange(x)
              /\ big_le(call.ret, x)
              /\ big_lt(x, Big(FALSE, mag_add(call.ret.mag, FLOAT_ULP_24.mag)))

\* 1 + 15 * 2**-28 came back as 1.0
C16_Witness ==
    /\ call.op = "namespace_decay_to_float"
    /\ call.args.namespace_decay_float =
           float_lit(FALSE, <<1>>, digits_of(0, 6) \o <<15>>)
    /\ call.ret = float_lit(FALSE, <<1>>, <<>>)

-----------------------------------------------------------------------------
(* The immutable-data records: removal and lookup *)

\* the txt list of a zonefile, empty when it has none
TxtList(z) == IF "txt" \in DOMAIN z THEN z["txt"] ELSE <<>>

\* the places of the records of txt whose hash suffix is h
PlacesOfHash(txt, h) ==
    { i \in 1..Len(txt) : get_immutable_hash_from_txt(txt[i].txt) = PyStr(h) }

IsRemoveImmutable ==
    /\ call.op = "remove_immutable_data_zonefile"
    /\ call.data_hash \in ValidHashes

\* C17: remove_immutable_data_zonefile(z, h) removes exactly one txt record,
\* the first in list order whose hash suffix equals h, and returns True; when
\* no record has hash h it returns False and leaves the txt list unchanged.
C17_RemoveFirstMatch ==
    IsRemoveImmutable =>
        LET txt == TxtList(call.pre)
            places == PlacesOfHash(txt, call.data_hash)
        IN  IF places = {}
            THEN /\ call.ret = PyBool(FALSE)
                 /\ user_zonefile = call.pre
            ELSE LET first == CHOOSE i \in places : \A j \in places : i <= j
                 IN  /\ call.ret = PyBool(TRUE)
                     /\ user_zonefile =
                            [call.pre EXCEPT !["txt"] =
                                SubSeq(txt, 1, first - 1)
                                    \o SubSeq(txt, first + 1, Len(txt))]

\* of two records of the hash, behind a record without it, the first one went
C17_Witness ==
    /\ IsRemoveImmutable
    /\ call.ret = PyBool(TRUE)
    /\ Cardinality(PlacesOfHash(TxtList(call.pre), call.data_hash)) = 2
    /\ 1 \notin PlacesOfHash(TxtList(call.pre), call.data_hash)
    /\ Cardinality(PlacesOfHash(TxtList(user_zonefile), call.data_hash)) = 1

-----------------------------------------------------------------------------
(* user.py: the packed key of a mutable datum, packed and unpacked *)

\* u == s of a unicode text and a str: the str is decoded as ASCII, and a str
\* that is not ASCII equals no text
unicode_eq_str(u, s) ==
    /\ \A i \in 1..Len(s) : s[i] < 128
    /\ u = s

\* the data ids packed, as texts of code points: ASCII ones, one holding a
\* ':', and ones holding e-acute (U+00E9)
PackIds ==
    { Str(<<"a">>), Str(<<"a", "b">>), Str(<<"a", "b", "c">>),
      Str(<<"a", ":", "b">>), Str(<<"a", "b", "c", "d">>),
      <<233>>, <<99, 97, 102, 233>> }

PackVersions == (0..MaxVersion) \cup { 9, 10, 11, 2014 }

PackArgs ==
    [ op : {"args"}, fn : {"pack_mutable_data_md"},
      data_id : PackIds, version : PackVersions ]

InitPack ==
    /\ user_data_info = EmptyDict
    /\ USER_CACHE = EmptyDict
    /\ user_files = EmptyDict
    /\ user_zonefile = EmptyDict
    /\ call \in PackArgs

pack_mutable_data_md_step ==
    /\ Pending("pack_mutable_data_md")
    /\ call' = [ op |-> "pack_mutable_data_md", args |-> call,
                 ret |-> pack_mutable_data_md(call.data_id, call.version) ]
    /\ UNCHANGED << user_data_info, user_zonefile, USER_CACHE, user_files >>

\* unpack of the key that pack returned; its assert fails on what is no key
unpack_mutable_data_md_step ==
    /\ call.op = "pack_mutable_data_md"
    /\ call' = [ op |-> "unpack_mutable_data_md", args |-> call.args,
                 rec |-> call.ret,
                 ret |-> IF ~is_mutable_data_md(call.ret)
                         THEN Raise("AssertionError")
                         ELSE [type |-> "tuple",
                               data_id |-> unpack_mutable_data_md(call.ret).data_id,
                               version |-> unpack_mutable_data_md(call.ret).version] ]
    /\ UNCHANGED << user_data_info, user_zonefile, USER_CACHE, user_files >>

NextPack ==
    \/ pack_mutable_data_md_step
    \/ unpack_mutable_data_md_step

SpecPack == InitPack /\ [][NextPack]_vars

\* C18: unpack_mutable_data_md is the exact inverse of pack_mutable_data_md:
\* for every data_id and non-negative integer version, unpack(pack(data_id,
\* version)) == (data_id, version), and two (data_id, version) pairs pack to
\* the same key only if they are equal.
C18_UnpackInvertsPack ==
    /\ call.op = "unpack_mutable_data_md" =>
          /\ call.ret.type = "tuple"
          /\ unicode_eq_str(call.args.data_id, call.ret.data_id)
          /\ call.ret.version = call.args.version
    /\ call.op = "pack_mutable_data_md" =>
          \A other \in PackArgs :
              pack_mutable_data_md(other.data_id, other.version) = call.ret
                  => other = call.args

\* the last call was a put that wrote a record, the last of the txt list
PutWroteRecord ==
    /\ IsPutImmutable
    /\ call.ret = PyBool(TRUE)
    /\ user_zonefile # call.pre

\* C19: for a txt record written by put_immutable_data_zonefile as url + '#'
\* + hash, get_immutable_hash_from_txt returns hash (the substring after the
\* last '#') and get_immutable_url_from_txt returns url (everything before
\* the last '#'), also when url itself contains '#'.
C19_TxtSplitsAtLastHash ==
    PutWroteRecord =>
        LET txt == user_zonefile["txt"]
            txtrec == txt[Len(txt)]
        IN  /\ txtrec.name = call.data_id
            /\ Len(txt) = Len(TxtList(call.pre)) + 1
            /\ get_immutable_hash_from_txt(txtrec.txt) = PyStr(call.data_hash)
            /\ get_immutable_url_from_txt(txtrec.txt) = call.data_url

\* a record written with a url that holds a '#' gave the url back
C19_Witness ==
    /\ PutWroteRecord
    /\ call.data_url # None
    /\ contains(call.data_url.str, HASH)
    /\ get_immutable_url_from_txt(user_zonefile["txt"][Len(user_zonefile["txt"])].txt)
           = call.data_url

-----------------------------------------------------------------------------
(* user.py: get_immutable_data_hash on zonefiles of any txt records *)

\* the txt of a record: a hash alone, a url with a '#' and a hash, a hash too
\* short to be valid, no hash
RecordTxts ==
    { <<HASH>> \o HASH_1,
      Str(<<"u", "#", "f">>) \o <<HASH>> \o HASH_2,
      <<HASH>> \o HASH_SHORT,
      Str(<<"u">>) }

LookupIds == { Str(<<"a">>), Str(<<"b">>) }

TxtRecords == [ name : LookupIds, txt : RecordTxts ]

TxtLists == UNION { [ 1..n -> TxtRecords ] : n \in 0..MaxTxt }

\* the zonefiles looked up: with no txt list, or with one of TxtLists
LookupZonefiles ==
    { dict_of("uri", <<URI_RECORD>>) }
    \cup { dict_update(dict_of("uri", <<URI_RECORD>>), dict_of("txt", txt)) :
           txt \in TxtLists }

InitLookup ==
    /\ user_zonefile \in LookupZonefiles
    /\ user_data_info = EmptyDict
    /\ USER_CACHE = EmptyDict
    /\ user_files = EmptyDict
    /\ call \in [ op : {"args"}, fn : {"get_immutable_data_hash"},
                  data_id : LookupIds ]

get_immutable_data_hash_step ==
    /\ Pending("get_immutable_data_hash")
    /\ call' = [ op |-> "get_immutable_data_hash", data_id |-> call.data_id,
                 ret |-> get_immutable_data_hash(user_zonefile, call.data_id) ]
    /\ UNCHANGED << user_data_info, user_zonefile, USER_CACHE, user_files >>

NextLookup == get_immutable_data_hash_step

SpecLookup == InitLookup /\ [][NextLookup]_vars

\* the places of the records named data_id whose hash suffix is a valid hash
PlacesOfId(txt, data_id) ==
    { i \in 1..Len(txt) :
        /\ txt[i].name = data_id
        /\ get_immutable_hash_from_txt(txt[i].txt) # None }

\* the k-th place of a set of places, in list order
KthPlace(places, k) ==
    CHOOSE i \in places : Cardinality({ j \in places : j <= i }) = k

\* C20: get_immutable_data_hash(z, data_id) returns None when no txt record
\* with a valid hash is named data_id, the hash string when exactly one is,
\* and the list of all their hashes in record order when more than one is.
C20_HashNoneOneOrList ==
    call.op = "get_immutable_data_hash" =>
        LET txt == TxtList(user_zonefile)
            places == PlacesOfId(txt, call.data_id)
            hash_at(i) == get_immutable_hash_from_txt(txt[i].txt).str
        IN  IF places = {} THEN call.ret = None
            ELSE IF Cardinality(places) = 1
            THEN call.ret = PyStr(hash_at(KthPlace(places, 1)))
            ELSE /\ call.ret.type = "list"
                 /\ Len(call.ret.list) = Cardinality(places)
                 /\ \A k \in 1..Len(call.ret.list) :
                       call.ret.list[k] = hash_at(KthPlace(places, k))

\* two records of the data_id with different hashes, around a record of
\* another name: the list of both hashes, in record order
C20_Witness ==
    /\ call.op = "get_immutable_data_hash"
    /\ call.ret = PyList(<< HASH_2, HASH_1 >>)
    /\ Len(user_zonefile["txt"]) = 3
    /\ user_zonefile["txt"][2].name # call.data_id

-----------------------------------------------------------------------------
(* The mutable-data registry: versions *)

\* the versions of the entries of data_id in d
StoredVersions(d, data_id) == { v \in Versions : HasEntry(d, data_id, v) }

PutOverEntry ==
    /\ call'.op = "put_mutable_data_info"
    /\ call'.pre = user_data_info
    /\ StoredVersions(user_data_info, call'.data_id) # {}

-----------------------------------------------------------------------------
(* user.py: the users directory and USER_CACHE *)

RECURSIVE replace(_, _, _)
\* s.replace(old, new), for a one-character old
replace(s, old, new) ==
    IF s = <<>> THEN <<>>
    ELSE (IF Head(s) = old THEN new ELSE <<Head(s)>>) \o replace(Tail(s), old, new)

\* "{}.user".format(user_id.replace('/', '\\x2f'))
user_name(user_id) ==
    replace(user_id, Ord("/"), Str(<<"\\", "x", "2", "f">>))
        \o Str(<<".", "u", "s", "e", "r">>)

\* the users directory of the one config_path
user_dir == Str(<<"u", "s", "e", "r", "s">>)

\* os.path.join(dirp, user_name(user_id))
user_path(user_id) == user_dir \o <<Ord("/")>> \o user_name(user_id)

\* a user token: the payload and the data public key whose private key signed it
jwt_of(payload, pubkey) == [type |-> "jwt", payload |-> payload, pubkey |-> pubkey]

\* the file that open(path, "w") left empty
EMPTY_FILE == PyStr(<<>>)

\* jsontokens.decode_token: the token's parts, DecodeError on what is no token
decode_token(token) ==
    IF token.type = "jwt" THEN [type |-> "dict", payload |-> token.payload]
    ELSE Raise("DecodeError")

\* jsontokens.TokenVerifier().verify of a token
verify(token, data_pubkey_hex) == token.pubkey = data_pubkey_hex

\* USER_SCHEMA: user_id, public_key and privkey_index
USER_SCHEMA(payload) == DOMAIN payload = { "user_id", "public_key", "privkey_index" }

\* 'error' in res
is_error(res) == "error" \in DOMAIN res

\* _user_load_path on the files of the directory
user_load_path(files, path, data_pubkey_hex) ==
    IF path \notin DOMAIN files THEN [error |-> "Failed to read user"]
    ELSE LET jwt == files[path]
         IN  IF jwt.type # "jwt" THEN Raise("DecodeError")
             ELSE IF data_pubkey_hex # None /\ ~verify(jwt, data_pubkey_hex.str)
             THEN [error |-> "Failed to verify user JWT data"]
             ELSE IF ~USER_SCHEMA(decode_token(jwt).payload)
             THEN Raise("ValidationError")
             ELSE [user |-> decode_token(jwt).payload, user_token |-> jwt]

\* del USER_CACHE[name], when it has the key
cache_without(cache, name) ==
    IF name \in DOMAIN cache THEN dict_del(cache, name) ELSE cache

\* user_store whose write succeeds
user_store(token) ==
    LET payload == decode_token(token).payload
        user_id == payload.user_id
        path == user_path(user_id)
    IN  /\ USER_SCHEMA(payload)
        /\ user_files' = dict_update(user_files, dict_of(path, token))
        /\ USER_CACHE' = cache_without(USER_CACHE, user_name(user_id))
        /\ call' = [ op |-> "user_store", user_id |-> user_id, token |-> token,
                     ret |-> [status |-> TRUE] ]
        /\ UNCHANGED << user_data_info, user_zonefile >>

\* user_store whose write fails: before the file is opened, or after
\* open(path, "w") has emptied it
user_store_fails(token, opened) ==
    LET payload == decode_token(token).payload
        user_id == payload.user_id
        path == user_path(user_id)
    IN  /\ USER_SCHEMA(payload)
        /\ user_files' = IF opened
                         THEN dict_update(user_files, dict_of(path, EMPTY_FILE))
                         ELSE user_files
        /\ call' = [ op |-> "user_store", user_id |-> user_id, token |-> token,
                     ret |-> [error |-> "Failed to store user"] ]
        /\ UNCHANGED << user_data_info, user_zonefile, USER_CACHE >>

\* user_delete; unlinked says whether os.unlink succeeds
user_delete(user_id, unlinked) ==
    LET path == user_path(user_id)
    IN  /\ IF path \notin DOMAIN user_files
           THEN /\ call' = [ op |-> "user_delete", user_id |-> user_id,
                             ret |-> [error |-> "No such user"] ]
                /\ UNCHANGED << user_files, USER_CACHE >>
           ELSE IF ~unlinked
           THEN /\ call' = [ op |-> "user_delete", user_id |-> user_id,
                             ret |-> [error |-> "Failed to unlink"] ]
                /\ UNCHANGED << user_files, USER_CACHE >>
           ELSE /\ user_files' = dict_del(user_files, path)
                /\ USER_CACHE' = cache_without(USER_CACHE, user_name(user_id))
                /\ call' = [ op |-> "user_delete", user_id |-> user_id,
                             ret |-> [status |-> TRUE] ]
        /\ UNCHANGED << user_data_info, user_zonefile >>

\* the record of a call of user_load; cached says whether USER_CACHE answered
load_call(user_id, data_pubkey, cached, ret) ==
    [ op |-> "user_load", user_id |-> user_id, data_pubkey |-> data_pubkey,
      cached |-> cached, ret |-> ret ]

user_load(user_id, data_pubkey) ==
    LET name == user_name(user_id)
    IN  /\ IF name \in DOMAIN USER_CACHE
           THEN /\ call' = load_call(user_id, data_pubkey, TRUE, USER_CACHE[name])
                /\ UNCHANGED USER_CACHE
           ELSE LET res == user_load_path(user_files, user_path(user_id), data_pubkey)
                IN  /\ call' = load_call(user_id, data_pubkey, FALSE, res)
                    /\ IF "type" \in DOMAIN res \/ is_error(res)
                       THEN UNCHANGED USER_CACHE
                       ELSE USER_CACHE' = dict_update(USER_CACHE, dict_of(name, res))
        /\ UNCHANGED << user_data_info, user_zonefile, user_files >>

UserIds == { Str(<<"u">>), Str(<<"a", "/", "b">>) }

\* the data public keys
DataPubkeys == { Str(<<"0", "2", "a">>), Str(<<"0", "3", "b">>) }

\* the tokens stored: of each user, signed for each data key, with the private
\* key index 1 or 2
UserTokens ==
    { jwt_of([user_id |-> u, public_key |-> Str(<<"0", "2", "c">>), privkey_index |-> i], k) :
      u \in UserIds, i \in 1..MaxPrivkeyIndex, k \in DataPubkeys }

LoadKeys == { None } \cup { PyStr(k) : k \in DataPubkeys }

InitUsers ==
    /\ user_data_info = EmptyDict
    /\ user_zonefile = EmptyDict
    /\ USER_CACHE = EmptyDict
    /\ user_files = EmptyDict
    /\ call = [op |-> "init"]

NextUsers ==
    \/ \E token \in UserTokens : user_store(token)
    \/ \E token \in UserTokens, opened \in BOOLEAN : user_store_fails(token, opened)
    \/ \E user_id \in UserIds, unlinked \in BOOLEAN : user_delete(user_id, unlinked)
    \/ \E user_id \in UserIds, data_pubkey \in LoadKeys : user_load(user_id, data_pubkey)

\* the users directory under any sequence of stores, deletes and loads
SpecUsers == InitUsers /\ [][NextUsers]_vars

-----------------------------------------------------------------------------
(* Properties of the user cache *)

\* the result is a user record {'user': ..., 'user_token': ...}
IsUserRecord(res) == "user_token" \in DOMAIN res

\* a user_load that returned a user record
LoadedRecord == call.op = "user_load" /\ IsUserRecord(call.ret)

\* user_load returned the token that the user's file holds now
LoadedFromDisk ==
    /\ user_path(call.user_id) \in DOMAIN user_files
    /\ user_files[user_path(call.user_id)] = call.ret.user_token

\* C23: after a user_store or user_delete call for a user_id, USER_CACHE holds
\* no entry for that user, and a user_load that returns a record returns the
\* one currently stored on disk.
C23_CacheInvalidatedOnWrite ==
    /\ call.op \in { "user_store", "user_delete" } =>
           user_name(call.user_id) \notin DOMAIN USER_CACHE
    /\ LoadedRecord => LoadedFromDisk

\* C24: a user_load with a data_pubkey other than None returns a user record
\* only if the token stored on disk verifies under that data_pubkey.
C24_LoadVerifiesUnderKey ==
    ( LoadedRecord /\ call.data_pubkey # None ) =>
        /\ user_path(call.user_id) \in DOMAIN user_files
        /\ user_files[user_path(call.user_id)].type = "jwt"
        /\ verify(user_files[user_path(call.user_id)], call.data_pubkey.str)

-----------------------------------------------------------------------------
(* The immutable-data records: a hash after its removal *)

\* C25: after remove_immutable_data_zonefile(z, h) returns True,
\* has_immutable_data(z, h) is False.
C25_RemovedHashIsGone ==
    ( IsRemoveImmutable /\ call.ret = PyBool(TRUE) ) =>
        ~has_immutable_data(user_zonefile, call.data_hash)

-----------------------------------------------------------------------------
(* user.py: the urls of a zonefile, added and removed *)

RECURSIVE lstrip(_, _)
\* s.lstrip(c)
lstrip(s, c) ==
    IF s # <<>> /\ Head(s) = c THEN lstrip(Tail(s), c) ELSE s

RECURSIVE rstrip(_, _)
\* s.rstrip(c)
rstrip(s, c) ==
    IF s # <<>> /\ s[Len(s)] = c THEN rstrip(SubSeq(s, 1, Len(s) - 1), c) ELSE s

\* s.strip(c)
strip(s, c) == rstrip(lstrip(s, c), c)

\* the character '"'
DQUOTE == 34

\* urirec.get('target', '').strip('"')
stripped_target(urirec) ==
    IF "target" \in DOMAIN urirec THEN strip(urirec.target, DQUOTE) ELSE <<>>

\* add_user_zonefile_url: the zonefile after the call and the result
add_user_zonefile_url(z, url) ==
    LET zu == setdefault(z, "uri", <<>>)
    IN  IF \E i \in 1..Len(zu["uri"]) : stripped_target(zu["uri"][i]) = url
        THEN [zonefile |-> zu, ret |-> None]
        ELSE LET added == [zu EXCEPT !["uri"] =
                              Append(@, url_to_uri_record(url, URI_RECORD.name))]
             IN  [zonefile |-> added, ret |-> PyDict(added)]

RECURSIVE remove_url_loop(_, _, _)
\* for urirec in user_zonefile['uri'], from the place i of the iterator on:
\* the list is the one that the removals so far have left, and the iterator
\* goes on to the place i + 1 of it after each record, removed or not
remove_url_loop(uri, i, url) ==
    IF i > Len(uri) THEN uri
    ELSE IF stripped_target(uri[i]) = url
    THEN remove_url_loop(list_remove(uri, uri[i]), i + 1, url)
    ELSE remove_url_loop(uri, i + 1, url)

\* remove_user_zonefile_url: the zonefile after the call and the result
remove_user_zonefile_url(z, url) ==
    IF "uri" \notin DOMAIN z THEN [zonefile |-> z, ret |-> None]
    ELSE LET removed == [z EXCEPT !["uri"] = remove_url_loop(@, 1, url)]
         IN  [zonefile |-> removed, ret |-> PyDict(removed)]

\* the urls added and removed
Urls == { Str(<<"u">>), Str(<<"v">>) }

\* the uri records: of each url, of the url 'u' in quotes, without a target
UriRecords ==
    { url_to_uri_record(url, URI_RECORD.name) : url \in Urls }
    \cup { url_to_uri_record(<<DQUOTE>> \o Str(<<"u">>) \o <<DQUOTE>>, URI_RECORD.name),
           [name |-> URI_RECORD.name] }

UriLists == UNION { [ 1..n -> UriRecords ] : n \in 0..MaxUri }

\* the zonefiles: without a uri list, or with one of UriLists
UrlZonefiles ==
    { dict_of("txt", <<>>) } \cup { dict_of("uri", uri) : uri \in UriLists }

InitUrls ==
    /\ user_zonefile \in UrlZonefiles
    /\ user_data_info = EmptyDict
    /\ USER_CACHE = EmptyDict
    /\ user_files = EmptyDict
    /\ call \in [ op : {"args"},
                  fn : {"add_user_zonefile_url", "remove_user_zonefile_url"},
                  url : Urls ]

add_user_zonefile_url_step ==
    /\ Pending("add_user_zonefile_url")
    /\ LET res == add_user_zonefile_url(user_zonefile, call.url)
       IN  /\ user_zonefile' = res.zonefile
           /\ call' = [ op |-> "add_user_zonefile_url", url |-> call.url,
                        ret |-> res.ret, pre |-> user_zonefile ]
    /\ UNCHANGED << user_data_info, USER_CACHE, user_files >>

remove_user_zonefile_url_step ==
    /\ Pending("remove_user_zonefile_url")
    /\ LET res == remove_user_zonefile_url(user_zonefile, call.url)
       IN  /\ user_zonefile' = res.zonefile
           /\ call' = [ op |-> "remove_user_zonefile_url", url |-> call.url,
                        ret |-> res.ret, pre |-> user_zonefile ]
    /\ UNCHANGED << user_data_info, USER_CACHE, user_files >>

NextUrls ==
    \/ add_user_zonefile_url_step
    \/ remove_user_zonefile_url_step

\* one call of add_user_zonefile_url or remove_user_zonefile_url on a zonefile
\* of any uri list
SpecUrls == InitUrls /\ [][NextUrls]_vars

\* C26: after remove_user_zonefile_url(z, url) returns on a zonefile with a uri
\* list, no uri record of z has a target equal to url (quotes stripped),
\* whatever the number of records of the list that carried that target.
C26_RemovedUrlIsGone ==
    ( call.op = "remove_user_zonefile_url" /\ "uri" \in DOMAIN call.pre ) =>
        \A i \in 1..Len(user_zonefile["uri"]) :
            stripped_target(user_zonefile["uri"][i]) # call.url

-----------------------------------------------------------------------------
(* The NAMESPACE_REVEAL operation: the range of the fixed point *)

\* C27: whenever namespace_decay_to_fixpoint returns a value other than None,
\* that value lies in [0, 2^32-1]; so in build, after a conversion that gave a
\* value, the range check of the decay rate does not fire: build of a valid
\* namespace id, version and cost returns the payload.
C27_FixpointFitsU32 ==
    /\ ( call.op = "namespace_decay_to_fixpoint" /\ call.ret.type = "int" )
           => InRange(call.ret.int, 32)
    /\ call.op = "build" =>
           LET fixedpoint == namespace_decay_to_fixpoint(call.args.price_decay_rate)
           IN  fixedpoint.type = "int" =>
                   /\ InRange(fixedpoint.int, 32)
                   /\ ( /\ call.args.namespace_id = Str(<<"i", "d">>)
                        /\ InRange(call.args.version, 16)
                        /\ InRange(call.args.satoshi_cost, 56) )
                          => call.ret.type = "str"

\* the float next below 256 became 0xffffffff
C27_Witness ==
    /\ call.op = "namespace_decay_to_fixpoint"
    /\ call.args.namespace_decay_float =
           float_lit(FALSE, <<15, 15>>, digits_of(15, FLOAT_DIGITS))
    /\ call.ret = [type |-> "int", int |-> pow2_minus_1(32)]

====
